---- MODULE Spec2Model ----
(***************************************************************************)
(* Carry marketplace (src/src/modules/carry.js): the four tables and the   *)
(* eleven route handlers of registerCarry.                                 *)
(*                                                                         *)
(* Each handler is an async function: it runs synchronously up to its      *)
(* first await, and every await is one SQL statement.  A statement is one  *)
(* atomic step of the model; between two statements of one handler the     *)
(* statements of the other handlers in flight may run.  Any statement may  *)
(* fail (the promise rejects), and the handler's catch block then answers  *)
(* 500.                                                                    *)
(*                                                                         *)
(* Tables are sequences indexed by id (INTEGER PRIMARY KEY AUTOINCREMENT,  *)
(* no row is ever physically deleted).  Of the listing's text columns,     *)
(* from_city stands for the nine that the handlers treat alike; the        *)
(* timestamps are modelled where a statement orders by them without a     *)
(* tie-break (carry_messages.created_at), in whole seconds.                *)
(*                                                                         *)
(* Specifications:                                                         *)
(*   Spec           every handler, statements interleaved                  *)
(*   SpecSerial     every handler, one request at a time                   *)
(*   SpecCancelled  the request workflow, interleaved, on a database that  *)
(*                  holds a cancelled request                              *)
(*   SpecUnrequested  the request workflow, interleaved, on a listing     *)
(*                  that nobody has requested yet                          *)
(*   SpecTwoPending the handlers one at a time, on a listing with two      *)
(*                  pending requests                                       *)
(***************************************************************************)
EXTENDS Integers, Sequences, FiniteSets, TLC

(* ------------------------------ bounds --------------------------------- *)
MaxOps == 2
MaxInFlight == 2
MaxRequestOps == 3

(* ------------------------ program constants ---------------------------- *)
ListLimit == 200
DetailMessages == 20
MessagesLimit == 200

VARIABLES
    listings,   \* carry_listings
    requests,   \* carry_requests
    messages,   \* carry_messages
    reviews,    \* carry_reviews
    inflight,   \* the handlers between two awaits
    resp,       \* the response sent by the last step, if that step sent one
    nops        \* number of HTTP requests received so far

vars == <<listings, requests, messages, reviews, inflight, resp, nops>>
db == <<listings, requests, messages, reviews>>

(* ------------------------------ values --------------------------------- *)
Null == <<>>
Some(x) == <<x>>
IsNull(o) == o = <<>>
Val(o) == o[1]

SqlNull == "<NULL>"

\* callers: two ordinary users and an admin
Users == {1, 2, 3}

\* auth.isAdminReq is supplied by the host; here user 3 is the admin.
isAdminReq(uid) == uid = 3

EmptyBody ==
    [role |-> "", from_city |-> "", message |-> "", rating |-> Null,
     reviewed_user_id |-> 0]

\* request bodies and query strings the callers send
ListingBodies ==
    {[EmptyBody EXCEPT !.role = "Sender"],
     [EmptyBody EXCEPT !.role = "Sender", !.from_city = "Lagos"],
     [EmptyBody EXCEPT !.role = "pilot"]}
RoleQueries == {"Sender", "pilot"}
UpdateBodies == {EmptyBody, [EmptyBody EXCEPT !.from_city = "Lagos"]}
MessageBodies == {EmptyBody, [EmptyBody EXCEPT !.message = "hi"]}
\* the rating of a JSON body: absent (Null) or the text of the value sent
ReviewBodies ==
    {EmptyBody,
     [EmptyBody EXCEPT !.rating = Some("abc")],
     [EmptyBody EXCEPT !.rating = Some("0")],
     [EmptyBody EXCEPT !.rating = Some("6")],
     [EmptyBody EXCEPT !.rating = Some("3.7")],
     [EmptyBody EXCEPT !.rating = Some("3.7"), !.reviewed_user_id = 2]}

(* --------------------------- pure functions ---------------------------- *)
ToLower(s) == IF s = "Sender" THEN "sender" ELSE s

clampRole(v) ==
    LET r == ToLower(v)
    IN  IF r = "traveler" \/ r = "sender" THEN Some(r) ELSE Null

\* canEdit without the ownership test: any authenticated caller may edit
canEditAnyCaller(reqUserId, rowUserId) == reqUserId # 0

canEdit(reqUserId, rowUserId) ==
    IF reqUserId = 0 THEN FALSE
    ELSE IF reqUserId = rowUserId THEN TRUE
    ELSE isAdminReq(reqUserId)

mapListing(row) ==
    [id |-> row.id,
     user_id |-> row.user_id,
     role |-> row.role,
     from_city |-> IF row.from_city = SqlNull THEN "" ELSE row.from_city,
     status |-> IF row.status = SqlNull THEN "open" ELSE row.status,
     is_active |-> row.is_active,
     data |-> row.data_json]

\* Math.round on tenths: the nearest integer, halves towards +Infinity
Round(t) == (t + 5) \div 10

Min(a, b) == IF a < b THEN a ELSE b
Max(a, b) == IF a > b THEN a ELSE b

\* Number(v) on the values sent, in tenths; Null when the result is NaN
Number(v) ==
    IF IsNull(v) THEN Null
    ELSE CASE Val(v) = "0" -> Some(0)
           [] Val(v) = "6" -> Some(60)
           [] Val(v) = "3.7" -> Some(37)
           [] OTHER -> Null

\* clampRating without Math.max and Math.min
clampRatingUnclamped(v) ==
    LET n == Number(v)
    IN  IF IsNull(n) THEN Null ELSE Some(Round(Val(n)))

clampRating(v) ==
    LET n == Number(v)
    IN  IF IsNull(n) THEN Null
        ELSE LET x == Round(Val(n))
             IN  Some(Max(1, Min(5, x)))

(* ------------------------------ SQL ------------------------------------ *)
\* SELECT ... FROM carry_listings WHERE id=?
GetListing(id) ==
    IF id \in 1..Len(listings) THEN Some(listings[id]) ELSE Null

\* the same SELECT without the is_active=1 condition
GetActiveListingAnyFlag(id) ==
    IF id \in 1..Len(listings) THEN Some(listings[id]) ELSE Null

\* SELECT ... FROM carry_listings WHERE id=? AND is_active=1
GetActiveListing(id) ==
    IF id \in 1..Len(listings) /\ listings[id].is_active = 1
    THEN Some(listings[id]) ELSE Null

\* SELECT * FROM carry_requests WHERE id=?
GetRequest(id) ==
    IF id \in 1..Len(requests) THEN Some(requests[id]) ELSE Null

\* SELECT id, status FROM carry_requests WHERE listing_id=? AND requester_id=?
\* LIMIT 1: the table is scanned in rowid order, the first match is returned
GetExisting(listingId, uid) ==
    LET ids == {i \in 1..Len(requests) :
                   requests[i].listing_id = listingId
                   /\ requests[i].requester_id = uid}
    IN  IF ids = {} THEN Null
        ELSE Some(requests[CHOOSE i \in ids : \A j \in ids : i <= j])

\* the rows of table t with listing_id=?, in id order (the order of
\* ORDER BY created_at ASC too: within one second the rowid order is kept)
ForListing(t, id) ==
    LET Test(r) == r.listing_id = id
    IN  SelectSeq(t, Test)

\* the rows of carry_listings WHERE is_active=1 [AND role=?], in id order
ActiveListings(role) ==
    LET Test(r) == r.is_active = 1 /\ (IsNull(role) \/ r.role = Val(role))
    IN  SelectSeq(listings, Test)

\* ORDER BY created_at DESC, id DESC (rows are created in id order)
RECURSIVE Descending(_)
Descending(rows) ==
    IF rows = <<>> THEN <<>>
    ELSE Append(Descending(Tail(rows)), Head(rows))

\* ORDER BY created_at DESC without a tie-break: the seconds from k down,
\* the rows of one second in rowid order
RECURSIVE NewestSecondFirst(_, _)
NewestSecondFirst(rows, k) ==
    IF k <= 0 THEN <<>>
    ELSE LET Test(r) == r.created_at = k
         IN  SelectSeq(rows, Test) \o NewestSecondFirst(rows, k - 1)

\* datetime('now') of the last row inserted into carry_messages
LastSecond == IF messages = <<>> THEN 0 ELSE messages[Len(messages)].created_at

\* datetime('now') as the next INSERT into carry_messages sees it: the
\* clock has one-second resolution and does not run backwards
Seconds == IF messages = <<>> THEN {1} ELSE {LastSecond, LastSecond + 1}

\* LIMIT n
Limit(rows, n) == IF Len(rows) <= n THEN rows ELSE SubSeq(rows, 1, n)

RECURSIVE SumRatings(_)
SumRatings(rows) ==
    IF rows = <<>> THEN 0 ELSE Head(rows).rating + SumRatings(Tail(rows))

(* --------------------------- handler frames ---------------------------- *)
\* the handlers in flight are told apart by a slot number
FreeSlot == CHOOSE k \in 1..MaxInFlight : \A h \in inflight : h.slot # k

Frame(op, uid, id, body, pc) ==
    [slot |-> IF Cardinality(inflight) < MaxInFlight THEN FreeSlot ELSE 0,
     op |-> op, uid |-> uid, id |-> id, body |-> body,
     pc |-> pc, row |-> Null, req |-> Null, num |-> 0, msgs |-> <<>>]

Response(h, status, error) ==
    [op |-> h.op, uid |-> h.uid, id |-> h.id, body |-> h.body,
     status |-> status, error |-> error,
     item |-> Null, items |-> <<>>, request_id |-> 0, num |-> 0,
     msgs |-> <<>>, rating_sum |-> 0, reviews_count |-> 0]

\* the request is received: nops counts it
Receive ==
    /\ nops < MaxOps
    /\ Cardinality(inflight) < MaxInFlight
    /\ nops' = nops + 1

\* the handler answers before its first await
Refuse(h, status, error) ==
    /\ resp' = Some(Response(h, status, error))
    /\ UNCHANGED <<db, inflight>>

\* the handler reaches its first await
Enter(h) ==
    /\ inflight' = inflight \cup {h}
    /\ resp' = Null
    /\ UNCHANGED db

\* the handler goes on to its next await
Goto(h, h2) ==
    /\ inflight' = (inflight \ {h}) \cup {h2}
    /\ resp' = Null
    /\ UNCHANGED nops

\* the handler answers and ends
Reply(h, r) ==
    /\ inflight' = inflight \ {h}
    /\ resp' = Some(r)
    /\ UNCHANGED nops

ErrorText(op) ==
    CASE op = "createListing" -> "Failed to create listing"
      [] op = "listListings" -> "Failed to load"
      [] op = "updateListing" -> "Failed to update"
      [] op = "deleteListing" -> "Failed to delete"
      [] OTHER -> "Failed"

(* ------------------------------ Init ----------------------------------- *)
\* The tables persist across restarts (CREATE TABLE IF NOT EXISTS): the
\* module starts on an empty database, or on one that earlier requests
\* have left: user 1 has created a listing and user 2 has requested it.
SeedListing ==
    [id |-> 1, user_id |-> 1, role |-> "sender", from_city |-> SqlNull,
     status |-> "open", is_active |-> 1,
     data_json |-> [EmptyBody EXCEPT !.role = "Sender"]]

SeedRequest(status) ==
    [id |-> 1, listing_id |-> 1, requester_id |-> 2, status |-> status]

Idle ==
    /\ messages = <<>>
    /\ reviews = <<>>
    /\ inflight = {}
    /\ resp = Null
    /\ nops = 0

Init ==
    /\ \/ listings = <<>> /\ requests = <<>>
       \/ listings = <<SeedListing>> /\ requests = <<SeedRequest("pending")>>
    /\ Idle

\* a database in which user 2's request has been cancelled (no handler of
\* this module writes that status; the schema names it)
InitCancelled ==
    /\ listings = <<SeedListing>>
    /\ requests = <<SeedRequest("cancelled")>>
    /\ Idle

\* a database in which nobody has requested user 1's listing yet; the
\* workflow is followed from there for MaxRequestOps requests
InitUnrequested ==
    /\ listings = <<SeedListing>>
    /\ requests = <<>>
    /\ messages = <<>>
    /\ reviews = <<>>
    /\ inflight = {}
    /\ resp = Null
    /\ nops = MaxOps - MaxRequestOps

\* a database in which users 2 and 3 have both requested user 1's open
\* listing and neither request has been answered
InitTwoPending ==
    /\ listings = <<SeedListing>>
    /\ requests = <<SeedRequest("pending"),
                    [SeedRequest("pending") EXCEPT !.id = 2,
                                                   !.requester_id = 3]>>
    /\ Idle

(* ------------------- POST /api/carry/listings -------------------------- *)
createListing_start(uid, body) ==
    LET h == Frame("createListing", uid, 0, body, "insert")
    IN  /\ Receive
        /\ IF IsNull(clampRole(body.role))
           THEN Refuse(h, 400, "Bad role")
           ELSE Enter(h)

createListing_insert(h) ==
    /\ h.op = "createListing" /\ h.pc = "insert"
    /\ listings' = Append(listings,
          [id |-> Len(listings) + 1,
           user_id |-> h.uid,
           role |-> Val(clampRole(h.body.role)),
           from_city |-> IF h.body.from_city = "" THEN SqlNull
                         ELSE h.body.from_city,
           status |-> "open",
           is_active |-> 1,
           data_json |-> h.body])
    /\ Goto(h, [h EXCEPT !.pc = "reread", !.num = Len(listings) + 1])
    /\ UNCHANGED <<requests, messages, reviews>>

createListing_reread(h) ==
    /\ h.op = "createListing" /\ h.pc = "reread"
    /\ Reply(h, [Response(h, 200, "") EXCEPT
                    !.item = Some(mapListing(Val(GetListing(h.num))))])
    /\ UNCHANGED db

(* -------------------- GET /api/carry/listings -------------------------- *)
\* authOptional: the handler does not read req.user.  Of the filters, role
\* is modelled; q, from_country and to_country select on text columns alike.
listListings_start(body) ==
    /\ Receive
    /\ Enter(Frame("listListings", 0, 0, body, "select"))

listListings_select(h) ==
    /\ h.op = "listListings" /\ h.pc = "select"
    /\ LET role == clampRole(h.body.role)
           rows == Limit(Descending(ActiveListings(role)), ListLimit)
       IN  Reply(h, [Response(h, 200, "") EXCEPT
                        !.items = [i \in 1..Len(rows) |-> mapListing(rows[i])]])
    /\ UNCHANGED db

(* ------------------ GET /api/carry/listings/:id ------------------------ *)
\* authOptional: the handler does not read req.user
getListing_start(id) ==
    LET h == Frame("getListing", 0, id, EmptyBody, "row")
    IN  /\ Receive
        /\ IF id = 0 THEN Refuse(h, 400, "Bad id") ELSE Enter(h)

getListing_row(h) ==
    /\ h.op = "getListing" /\ h.pc = "row"
    /\ LET row == GetActiveListing(h.id)
       IN  IF IsNull(row)
           THEN Reply(h, Response(h, 404, "Not found"))
           ELSE Goto(h, [h EXCEPT !.pc = "count", !.row = row])
    /\ UNCHANGED db

getListing_count(h) ==
    /\ h.op = "getListing" /\ h.pc = "count"
    /\ Goto(h, [h EXCEPT !.pc = "msgs",
                         !.num = Len(ForListing(requests, h.id))])
    /\ UNCHANGED db

getListing_msgs(h) ==
    /\ h.op = "getListing" /\ h.pc = "msgs"
    /\ Goto(h, [h EXCEPT !.pc = "rating",
          !.msgs = Limit(NewestSecondFirst(ForListing(messages, h.id),
                                           LastSecond),
                         DetailMessages)])
    /\ UNCHANGED db

getListing_rating(h) ==
    /\ h.op = "getListing" /\ h.pc = "rating"
    /\ LET rows == ForListing(reviews, h.id)
       IN  Reply(h, [Response(h, 200, "") EXCEPT
                        !.item = Some(mapListing(Val(h.row))),
                        !.num = h.num,
                        !.msgs = h.msgs,
                        !.rating_sum = SumRatings(rows),
                        !.reviews_count = Len(rows)])
    /\ UNCHANGED db

(* ----------------- PATCH /api/carry/listings/:id ----------------------- *)
updateListing_start(uid, id, body) ==
    LET h == Frame("updateListing", uid, id, body, "select")
    IN  /\ Receive
        /\ IF id = 0 THEN Refuse(h, 400, "Bad id") ELSE Enter(h)

updateListing_select(h) ==
    /\ h.op = "updateListing" /\ h.pc = "select"
    /\ LET row == GetListing(h.id)
       IN  IF IsNull(row)
           THEN Reply(h, Response(h, 404, "Not found"))
           ELSE IF ~canEdit(h.uid, Val(row).user_id)
           THEN Reply(h, Response(h, 403, "Forbidden"))
           ELSE Goto(h, [h EXCEPT !.pc = "update", !.row = row])
    /\ UNCHANGED db

\* the UPDATE with status among the columns it sets
UpdateListingRowResetsStatus(row, body) ==
    [row EXCEPT !.from_city = IF body.from_city = "" THEN @
                              ELSE body.from_city,
                !.data_json = body,
                !.status = "open"]

\* UPDATE carry_listings SET from_city=COALESCE(NULLIF(?,''), from_city),
\*   ..., data_json=COALESCE(?, data_json) WHERE id=?
UpdateListingRow(row, body) ==
    [row EXCEPT !.from_city = IF body.from_city = "" THEN @
                              ELSE body.from_city,
                !.data_json = body]

updateListing_update(h) ==
    /\ h.op = "updateListing" /\ h.pc = "update"
    /\ listings' = [i \in 1..Len(listings) |->
                      IF i = h.id THEN UpdateListingRow(listings[i], h.body)
                      ELSE listings[i]]
    /\ Goto(h, [h EXCEPT !.pc = "reread"])
    /\ UNCHANGED <<requests, messages, reviews>>

updateListing_reread(h) ==
    /\ h.op = "updateListing" /\ h.pc = "reread"
    /\ Reply(h, [Response(h, 200, "") EXCEPT
                    !.item = Some(mapListing(Val(GetListing(h.id))))])
    /\ UNCHANGED db

(* ----------------- DELETE /api/carry/listings/:id ---------------------- *)
deleteListing_start(uid, id) ==
    LET h == Frame("deleteListing", uid, id, EmptyBody, "select")
    IN  /\ Receive
        /\ IF id = 0 THEN Refuse(h, 400, "Bad id") ELSE Enter(h)

deleteListing_select(h) ==
    /\ h.op = "deleteListing" /\ h.pc = "select"
    /\ LET row == GetListing(h.id)
       IN  IF IsNull(row)
           THEN Reply(h, Response(h, 404, "Not found"))
           ELSE IF ~canEdit(h.uid, Val(row).user_id)
           THEN Reply(h, Response(h, 403, "Forbidden"))
           ELSE Goto(h, [h EXCEPT !.pc = "update", !.row = row])
    /\ UNCHANGED db

\* UPDATE carry_listings SET is_active=0 WHERE id=?
SoftDeleteRow(row) == [row EXCEPT !.is_active = 0]

deleteListing_update(h) ==
    /\ h.op = "deleteListing" /\ h.pc = "update"
    /\ listings' = [i \in 1..Len(listings) |->
                      IF i = h.id THEN SoftDeleteRow(listings[i])
                      ELSE listings[i]]
    /\ Reply(h, Response(h, 200, ""))
    /\ UNCHANGED <<requests, messages, reviews>>

(* ------------- POST /api/carry/listings/:id/request -------------------- *)
createRequest_start(uid, id) ==
    LET h == Frame("createRequest", uid, id, EmptyBody, "listing")
    IN  /\ Receive
        /\ IF id = 0 THEN Refuse(h, 400, "Bad id") ELSE Enter(h)

\* the listing lookup of create-request without the own-listing test
createRequest_listing_noOwnerTest(h) ==
    /\ h.op = "createRequest" /\ h.pc = "listing"
    /\ LET listing == GetActiveListing(h.id)
       IN  IF IsNull(listing)
           THEN Reply(h, Response(h, 404, "Not found"))
           ELSE IF Val(listing).status # "open"
           THEN Reply(h, Response(h, 400, "Listing not open"))
           ELSE Goto(h, [h EXCEPT !.pc = "existing", !.row = listing])
    /\ UNCHANGED db

createRequest_listing(h) ==
    /\ h.op = "createRequest" /\ h.pc = "listing"
    /\ LET listing == GetActiveListing(h.id)
       IN  IF IsNull(listing)
           THEN Reply(h, Response(h, 404, "Not found"))
           ELSE IF Val(listing).user_id = h.uid
           THEN Reply(h, Response(h, 400, "You can't request your own listing"))
           ELSE IF Val(listing).status # "open"
           THEN Reply(h, Response(h, 400, "Listing not open"))
           ELSE Goto(h, [h EXCEPT !.pc = "existing", !.row = listing])
    /\ UNCHANGED db

createRequest_existing(h) ==
    /\ h.op = "createRequest" /\ h.pc = "existing"
    /\ LET existing == GetExisting(h.id, h.uid)
       IN  IF ~IsNull(existing) /\ Val(existing).status # "cancelled"
           THEN Reply(h, Response(h, 400, "Already requested"))
           ELSE Goto(h, [h EXCEPT !.pc = "write", !.req = existing])
    /\ UNCHANGED db

\* UPDATE carry_requests SET status=? WHERE id=?
SetRequestStatus(table, id, status) ==
    [i \in 1..Len(table) |->
        IF i = id THEN [table[i] EXCEPT !.status = status] ELSE table[i]]

\* INSERT INTO carry_requests (listing_id, requester_id, status)
NewRequest(id, listingId, uid) ==
    [id |-> id, listing_id |-> listingId, requester_id |-> uid,
     status |-> "pending"]

\* the third statement as an INSERT whatever the lookup found
createRequest_write_alwaysInsert(h) ==
    /\ h.op = "createRequest" /\ h.pc = "write"
    /\ requests' = Append(requests, NewRequest(Len(requests) + 1, h.id, h.uid))
    /\ Reply(h, [Response(h, 200, "") EXCEPT !.request_id = Len(requests) + 1])
    /\ UNCHANGED <<listings, messages, reviews>>

\* the third statement: the UPDATE of the row found, or the INSERT
createRequest_write(h) ==
    /\ h.op = "createRequest" /\ h.pc = "write"
    /\ IF ~IsNull(h.req)
       THEN /\ requests' = SetRequestStatus(requests, Val(h.req).id, "pending")
            /\ Reply(h, [Response(h, 200, "") EXCEPT
                            !.request_id = Val(h.req).id])
       ELSE /\ requests' =
                  Append(requests, NewRequest(Len(requests) + 1, h.id, h.uid))
            /\ Reply(h, [Response(h, 200, "") EXCEPT
                            !.request_id = Len(requests) + 1])
    /\ UNCHANGED <<listings, messages, reviews>>

(* ------------- PATCH /api/carry/requests/:id/accept -------------------- *)
acceptRequest_start(uid, id) ==
    LET h == Frame("acceptRequest", uid, id, EmptyBody, "request")
    IN  /\ Receive
        /\ IF id = 0 THEN Refuse(h, 400, "Bad id") ELSE Enter(h)

\* the two reads and the ownership check that accept and reject share
ResolveRequest(h) ==
    /\ h.pc = "request"
    /\ LET reqRow == GetRequest(h.id)
       IN  IF IsNull(reqRow)
           THEN Reply(h, Response(h, 404, "Not found"))
           ELSE Goto(h, [h EXCEPT !.pc = "listing", !.req = reqRow])
    /\ UNCHANGED db

ResolveListing(h) ==
    /\ h.pc = "listing"
    /\ LET listing == GetListing(Val(h.req).listing_id)
       IN  IF IsNull(listing)
           THEN Reply(h, Response(h, 404, "Listing missing"))
           ELSE IF ~canEdit(h.uid, Val(listing).user_id)
           THEN Reply(h, Response(h, 403, "Forbidden"))
           ELSE Goto(h, [h EXCEPT !.pc = "write", !.row = listing])
    /\ UNCHANGED db

acceptRequest_request(h) == h.op = "acceptRequest" /\ ResolveRequest(h)

acceptRequest_listing(h) == h.op = "acceptRequest" /\ ResolveListing(h)

acceptRequest_write(h) ==
    /\ h.op = "acceptRequest" /\ h.pc = "write"
    /\ requests' = SetRequestStatus(requests, h.id, "accepted")
    /\ Goto(h, [h EXCEPT !.pc = "match"])
    /\ UNCHANGED <<listings, messages, reviews>>

\* UPDATE carry_listings SET status='matched' WHERE id=?
MatchRow(row) == [row EXCEPT !.status = "matched"]

acceptRequest_match(h) ==
    /\ h.op = "acceptRequest" /\ h.pc = "match"
    /\ listings' = [i \in 1..Len(listings) |->
                      IF i = Val(h.row).id THEN MatchRow(listings[i])
                      ELSE listings[i]]
    /\ Reply(h, Response(h, 200, ""))
    /\ UNCHANGED <<requests, messages, reviews>>

(* ------------- PATCH /api/carry/requests/:id/reject -------------------- *)
rejectRequest_start(uid, id) ==
    LET h == Frame("rejectRequest", uid, id, EmptyBody, "request")
    IN  /\ Receive
        /\ IF id = 0 THEN Refuse(h, 400, "Bad id") ELSE Enter(h)

rejectRequest_request(h) == h.op = "rejectRequest" /\ ResolveRequest(h)

rejectRequest_listing(h) == h.op = "rejectRequest" /\ ResolveListing(h)

rejectRequest_write(h) ==
    /\ h.op = "rejectRequest" /\ h.pc = "write"
    /\ requests' = SetRequestStatus(requests, h.id, "rejected")
    /\ Reply(h, Response(h, 200, ""))
    /\ UNCHANGED <<listings, messages, reviews>>

(* ------------- GET /api/carry/listings/:id/messages -------------------- *)
\* authRequired, but the handler does not read req.user
getMessages_start(id) ==
    LET h == Frame("getMessages", 0, id, EmptyBody, "select")
    IN  /\ Receive
        /\ IF id = 0 THEN Refuse(h, 400, "Bad id") ELSE Enter(h)

getMessages_select(h) ==
    /\ h.op = "getMessages" /\ h.pc = "select"
    /\ Reply(h, [Response(h, 200, "") EXCEPT
              !.msgs = Limit(ForListing(messages, h.id), MessagesLimit)])
    /\ UNCHANGED db

(* ------------- POST /api/carry/listings/:id/messages ------------------- *)
postMessage_start(uid, id, body) ==
    LET h == Frame("postMessage", uid, id, body, "insert")
    IN  /\ Receive
        /\ IF id = 0 THEN Refuse(h, 400, "Bad id")
           ELSE IF body.message = "" THEN Refuse(h, 400, "Missing message")
           ELSE Enter(h)

postMessage_insert(h) ==
    /\ h.op = "postMessage" /\ h.pc = "insert"
    /\ \E now \in Seconds :
          messages' = Append(messages,
             [id |-> Len(messages) + 1, listing_id |-> h.id,
              sender_id |-> h.uid, message |-> h.body.message,
              created_at |-> now])
    /\ Goto(h, [h EXCEPT !.pc = "reread", !.num = Len(messages) + 1])
    /\ UNCHANGED <<listings, requests, reviews>>

postMessage_reread(h) ==
    /\ h.op = "postMessage" /\ h.pc = "reread"
    /\ Reply(h, [Response(h, 200, "") EXCEPT !.msgs = <<messages[h.num]>>])
    /\ UNCHANGED db

(* ------------- POST /api/carry/listings/:id/review --------------------- *)
postReview_start(uid, id, body) ==
    LET h == Frame("postReview", uid, id, body, "listing")
    IN  /\ Receive
        /\ IF id = 0 THEN Refuse(h, 400, "Bad id")
           ELSE IF LET rating == clampRating(body.rating)
                   IN  IsNull(rating) \/ Val(rating) = 0
           THEN Refuse(h, 400, "Bad rating")
           ELSE Enter(h)

postReview_listing(h) ==
    /\ h.op = "postReview" /\ h.pc = "listing"
    /\ LET listing == GetListing(h.id)
       IN  IF IsNull(listing)
           THEN Reply(h, Response(h, 404, "Not found"))
           ELSE Goto(h, [h EXCEPT !.pc = "insert", !.row = listing])
    /\ UNCHANGED db

postReview_insert(h) ==
    /\ h.op = "postReview" /\ h.pc = "insert"
    /\ reviews' = Append(reviews,
          [id |-> Len(reviews) + 1, listing_id |-> h.id,
           reviewer_id |-> h.uid,
           reviewed_user_id |-> IF h.body.reviewed_user_id # 0
                                THEN h.body.reviewed_user_id
                                ELSE Val(h.row).user_id,
           rating |-> Val(clampRating(h.body.rating))])
    /\ Reply(h, Response(h, 200, ""))
    /\ UNCHANGED <<listings, requests, messages>>

(* ---------------- a statement fails: the catch block ------------------- *)
StorageFailure(h) ==
    /\ Reply(h, Response(h, 500, ErrorText(h.op)))
    /\ UNCHANGED db

(* ------------------------------ Next ----------------------------------- *)
ListingIds == 0..(Len(listings) + 1)
RequestIds == 0..(Len(requests) + 1)

\* a request arrives
Arrive ==
    \/ \E u \in Users, b \in ListingBodies : createListing_start(u, b)
    \/ \E r \in RoleQueries :
          listListings_start([EmptyBody EXCEPT !.role = r])
    \/ \E id \in ListingIds : getListing_start(id)
    \/ \E u \in Users, id \in ListingIds, b \in UpdateBodies :
          updateListing_start(u, id, b)
    \/ \E u \in Users, id \in ListingIds : deleteListing_start(u, id)
    \/ \E u \in Users, id \in ListingIds : createRequest_start(u, id)
    \/ \E u \in Users, id \in RequestIds : acceptRequest_start(u, id)
    \/ \E u \in Users, id \in RequestIds : rejectRequest_start(u, id)
    \/ \E id \in ListingIds : getMessages_start(id)
    \/ \E u \in Users, id \in ListingIds, b \in MessageBodies :
          postMessage_start(u, id, b)
    \/ \E u \in Users, id \in ListingIds, b \in ReviewBodies :
          postReview_start(u, id, b)

\* a statement of a handler in flight completes
Step ==
    \/ \E h \in inflight : createListing_insert(h)
    \/ \E h \in inflight : createListing_reread(h)
    \/ \E h \in inflight : listListings_select(h)
    \/ \E h \in inflight : getListing_row(h)
    \/ \E h \in inflight : getListing_count(h)
    \/ \E h \in inflight : getListing_msgs(h)
    \/ \E h \in inflight : getListing_rating(h)
    \/ \E h \in inflight : updateListing_select(h)
    \/ \E h \in inflight : updateListing_update(h)
    \/ \E h \in inflight : updateListing_reread(h)
    \/ \E h \in inflight : deleteListing_select(h)
    \/ \E h \in inflight : deleteListing_update(h)
    \/ \E h \in inflight : createRequest_listing(h)
    \/ \E h \in inflight : createRequest_existing(h)
    \/ \E h \in inflight : createRequest_write(h)
    \/ \E h \in inflight : acceptRequest_request(h)
    \/ \E h \in inflight : acceptRequest_listing(h)
    \/ \E h \in inflight : acceptRequest_write(h)
    \/ \E h \in inflight : acceptRequest_match(h)
    \/ \E h \in inflight : rejectRequest_request(h)
    \/ \E h \in inflight : rejectRequest_listing(h)
    \/ \E h \in inflight : rejectRequest_write(h)
    \/ \E h \in inflight : getMessages_select(h)
    \/ \E h \in inflight : postMessage_insert(h)
    \/ \E h \in inflight : postMessage_reread(h)
    \/ \E h \in inflight : postReview_listing(h)
    \/ \E h \in inflight : postReview_insert(h)
    \/ \E h \in inflight : StorageFailure(h)

Next == Arrive \/ Step

\* requests arrive one after another: each once the last has been answered
NextSerial == (inflight = {} /\ Arrive) \/ Step

\* the match-request workflow alone: its three handlers, interleaved
NextRequests ==
    \/ \E u \in Users, id \in ListingIds : createRequest_start(u, id)
    \/ \E u \in Users, id \in RequestIds : acceptRequest_start(u, id)
    \/ \E u \in Users, id \in RequestIds : rejectRequest_start(u, id)
    \/ \E h \in inflight : createRequest_listing(h)
    \/ \E h \in inflight : createRequest_existing(h)
    \/ \E h \in inflight : createRequest_write(h)
    \/ \E h \in inflight : acceptRequest_request(h)
    \/ \E h \in inflight : acceptRequest_listing(h)
    \/ \E h \in inflight : acceptRequest_write(h)
    \/ \E h \in inflight : acceptRequest_match(h)
    \/ \E h \in inflight : rejectRequest_request(h)
    \/ \E h \in inflight : rejectRequest_listing(h)
    \/ \E h \in inflight : rejectRequest_write(h)
    \/ \E h \in inflight : StorageFailure(h)

Spec == Init /\ [][Next]_vars
SpecSerial == Init /\ [][NextSerial]_vars
SpecCancelled == InitCancelled /\ [][NextRequests]_vars
SpecUnrequested == InitUnrequested /\ [][NextRequests]_vars
SpecTwoPending == InitTwoPending /\ [][NextSerial]_vars

(* ======================== properties checked =========================== *)
\* the handler h completes a statement in this step
StepOf(h) == h \in inflight /\ h \notin inflight'

Replied == ~IsNull(resp)
Answer == Val(resp)

\* the parent listing of request i
Parent(i) == listings[requests[i].listing_id]

\* C1: no state shows a request with status accepted whose parent listing
\* is not matched: the two writes of accept are seen together or not at all,
\* under every interleaving and every storage failure.
C1_AcceptedImpliesMatched ==
    \A i \in 1..Len(requests) :
        requests[i].status = "accepted" => Parent(i).status = "matched"

\* C2: in every reachable state each (listing, requester) pair has at most
\* one request row whose status is not cancelled.
C2_OneLiveRequestPerPair ==
    \A i, j \in 1..Len(requests) :
        (/\ i # j
         /\ requests[i].listing_id = requests[j].listing_id
         /\ requests[i].requester_id = requests[j].requester_id)
        => (requests[i].status = "cancelled" \/ requests[j].status = "cancelled")

\* C3: accepted and rejected are terminal: no step changes the status of a
\* request that is accepted or rejected.
C3_TerminalStates ==
    [][\A i \in 1..Len(requests) :
          requests[i].status \in {"accepted", "rejected"}
          => requests'[i].status = requests[i].status]_vars

\* C4: whenever create-request writes (inserts a pending row or resets a
\* cancelled one), the parent listing's status is open at that moment.
C4_WriteOnlyWhenOpen ==
    [][\A h \in inflight :
          (/\ StepOf(h)
           /\ h.op = "createRequest" /\ h.pc = "write"
           /\ requests' # requests)
          => listings[h.id].status = "open"]_vars

\* the caller u owns listing l or is an admin
Privileged(u, l) == u = l.user_id \/ isAdminReq(u)

\* the listing that an update, delete, accept or reject in flight concerns
\* (Null when the id names no row)
Concerned(h) ==
    IF h.op \in {"updateListing", "deleteListing"} THEN GetListing(h.id)
    ELSE IF IsNull(GetRequest(h.id)) THEN Null
    ELSE GetListing(Val(GetRequest(h.id)).listing_id)

\* C5: update, soft delete, accept and reject change a row only for the
\* owner of the listing concerned or an admin; for any other caller the
\* ownership check answers 403 Forbidden and no row changes.
C5_OwnerOrAdminOnly ==
    [][\A h \in inflight :
          (/\ StepOf(h)
           /\ h.op \in {"updateListing", "deleteListing",
                        "acceptRequest", "rejectRequest"}
           /\ ~IsNull(Concerned(h))
           /\ ~Privileged(h.uid, Val(Concerned(h))))
          => /\ UNCHANGED db
             /\ ~IsNull(resp') => Val(resp').status # 200
             /\ h.pc \in {"select", "listing"}
                => /\ ~IsNull(resp')
                   /\ \/ Val(resp').status = 500
                      \/ resp' = Some(Response(h, 403, "Forbidden"))]_vars

\* C5 witness: the requester, who does not own the listing, tried to accept
\* their own request and got 403; the request is still pending.
C5_Witness ==
    /\ Replied
    /\ Answer.op = "acceptRequest" /\ Answer.status = 403
    /\ Answer.id \in 1..Len(requests)
    /\ requests[Answer.id].requester_id = Answer.uid
    /\ requests[Answer.id].status = "pending"

\* the last answer is to a create-request by the owner of the listing named
OwnListingAnswer ==
    /\ Replied
    /\ Answer.op = "createRequest"
    /\ Answer.id \in 1..Len(listings)
    /\ listings[Answer.id].user_id = Answer.uid

\* C6 as claimed: a create-request on one's own listing is always answered
\* 400 (a storage failure's 500 set aside).
C6_OwnListingAlways400 ==
    (OwnListingAnswer /\ Answer.status # 500) => Answer.status = 400

\* C6 as amended: a create-request on one's own listing is answered 400
\* "You can't request your own listing" whatever the listing's status when
\* the listing is active, 404 when it is soft-deleted (500 when the lookup
\* fails); and no request row has the owner of its listing as requester.
C6_OwnListingRefused ==
    /\ \A i \in 1..Len(requests) :
          requests[i].requester_id # Parent(i).user_id
    /\ (OwnListingAnswer /\ Answer.status # 500)
       => IF listings[Answer.id].is_active = 1
          THEN /\ Answer.status = 400
               /\ Answer.error = "You can't request your own listing"
          ELSE Answer.status = 404

\* C6 witness: the owner asked for their own listing, which is matched, and
\* got the own-listing 400.
C6_Witness ==
    /\ OwnListingAnswer
    /\ Answer.status = 400
    /\ listings[Answer.id].status = "matched"
    /\ listings[Answer.id].is_active = 1

\* listing id is a row that has been soft-deleted
Inactive(id) == id \in 1..Len(listings) /\ listings[id].is_active = 0

\* C7: a soft-deleted listing stays a row with is_active=0 under every later
\* operation; the delete leaves requests, messages and reviews as they were;
\* and neither the list nor the detail endpoint returns a soft-deleted
\* listing.
C7_SoftDeleteHides ==
    /\ [](Replied /\ Answer.op = "listListings"
            => \A k \in 1..Len(Answer.items) : ~Inactive(Answer.items[k].id))
    /\ [](Replied /\ Answer.op = "getListing" /\ Answer.status = 200
            => ~IsNull(Answer.item) /\ ~Inactive(Val(Answer.item).id))
    /\ [](Replied /\ Answer.op = "getListing" /\ Inactive(Answer.id)
            => IsNull(Answer.item))
    /\ [][/\ Len(listings') >= Len(listings)
          /\ \A i \in 1..Len(listings) :
                Inactive(i) => listings'[i].is_active = 0
          /\ \A h \in inflight :
                (StepOf(h) /\ h.op = "deleteListing")
                => /\ UNCHANGED <<requests, messages, reviews>>
                   /\ Len(listings') = Len(listings)]_vars

\* C7 witness: listing 1 has been soft-deleted, the detail endpoint has just
\* answered 404 for it, and its request is still in the table.
C7_Witness ==
    /\ Replied
    /\ Answer.op = "getListing" /\ Answer.status = 404
    /\ Inactive(Answer.id)
    /\ \E i \in 1..Len(requests) : requests[i].listing_id = Answer.id

\* C8: get details, update and soft delete treat a soft-deleted listing as
\* absent: a statement of theirs that runs on one changes no row, and their
\* answer is 404 with no listing data (500 when the statement fails).
C8_InactiveIsAbsent ==
    [][\A h \in inflight :
          (/\ StepOf(h)
           /\ h.op \in {"getListing", "updateListing", "deleteListing"}
           /\ Inactive(h.id))
          => /\ UNCHANGED db
             /\ ~IsNull(resp')
             /\ Val(resp').status \in {404, 500}
             /\ IsNull(Val(resp').item)]_vars

\* the request rows of the pair (listing id, requester uid)
RowsOf(table, id, uid) ==
    {i \in 1..Len(table) :
        table[i].listing_id = id /\ table[i].requester_id = uid}

\* the step of handler h is not the failure of its statement
Succeeds(h) == StepOf(h) /\ ~(~IsNull(resp') /\ Val(resp').status = 500)

\* C9: when the caller's prior request is cancelled, create-request reuses
\* the row: the lookup finds that row and refuses nothing, and the write
\* resets it to pending, answers 200 with that row's id and inserts nothing,
\* so the pair keeps its rows.
C9_CancelledRowReused ==
    [][\A h \in inflight :
          (Succeeds(h) /\ h.op = "createRequest")
          => /\ \A i \in 1..Len(requests) :
                   (/\ h.pc = "existing"
                    /\ RowsOf(requests, h.id, h.uid) = {i}
                    /\ requests[i].status = "cancelled")
                   => /\ IsNull(resp')
                      /\ \E g \in inflight' :
                            /\ g.slot = h.slot /\ g.pc = "write"
                            /\ g.req = Some(requests[i])
             /\ (h.pc = "write" /\ ~IsNull(h.req)
                     /\ Val(h.req).status = "cancelled")
                => /\ Len(requests') = Len(requests)
                   /\ RowsOf(requests', h.id, h.uid)
                         = RowsOf(requests, h.id, h.uid)
                   /\ requests'[Val(h.req).id].status = "pending"
                   /\ \A i \in 1..Len(requests) :
                         i # Val(h.req).id => requests'[i] = requests[i]
                   /\ ~IsNull(resp')
                   /\ Val(resp').status = 200
                   /\ Val(resp').request_id = Val(h.req).id]_vars

\* C9 witness: user 2, whose request 1 was cancelled, has asked again and
\* got 200 with request id 1; request 1 is pending and is the only row.
C9_Witness ==
    /\ Replied
    /\ Answer.op = "createRequest" /\ Answer.status = 200
    /\ Answer.uid = 2 /\ Answer.request_id = 1
    /\ Len(requests) = 1
    /\ requests[1].status = "pending"

\* C10: a listing's status changes only by an explicit transition: a new
\* row starts open, accept's second statement sets matched, and no other
\* step changes any listing's status; reject changes no listing column.
C10_StatusOnlyByTransition ==
    [][/\ Len(listings') >= Len(listings)
       /\ \A i \in 1..Len(listings) :
             listings'[i].status # listings[i].status
             => /\ listings'[i].status = "matched"
                /\ \E h \in inflight :
                      StepOf(h) /\ h.op = "acceptRequest" /\ h.pc = "match"
       /\ \A i \in (Len(listings) + 1)..Len(listings') :
             /\ listings'[i].status = "open"
             /\ \E h \in inflight : StepOf(h) /\ h.op = "createListing"
       /\ \A h \in inflight :
             (StepOf(h) /\ h.op = "rejectRequest") => listings' = listings
      ]_vars

\* C10 witness: a matched listing has just been updated by its owner with a
\* new from_city: the answer shows the new city and the status still matched.
C10_Witness ==
    /\ Replied
    /\ Answer.op = "updateListing" /\ Answer.status = 200
    /\ Answer.body.from_city = "Lagos"
    /\ ~IsNull(Answer.item)
    /\ Val(Answer.item).from_city = "Lagos"
    /\ Val(Answer.item).status = "matched"
(* ------------------------------ reviews -------------------------------- *)
\* the handler h of a review stores its row and answers 200
Reviewed(h) ==
    /\ h.op = "postReview" /\ h.pc = "insert"
    /\ StepOf(h)
    /\ Val(resp').status = 200

\* the review of a body whose rating is the text v is answered at once
RefusedAtOnce(v) ==
    /\ nops' = nops + 1
    /\ ~IsNull(resp')
    /\ Val(resp').op = "postReview"
    /\ Val(resp').id \in 1..Len(listings)
    /\ Val(resp').body.rating = v

\* the ratings the spec lists for the inputs 0, 6 and 3.7
ListedRating(v) ==
    CASE v = Some("0") -> 1
      [] v = Some("6") -> 5
      [] v = Some("3.7") -> 3

\* the same with 3.7 rounded to the nearest integer
RoundedRating(v) ==
    CASE v = Some("0") -> 1
      [] v = Some("6") -> 5
      [] v = Some("3.7") -> 4

NumericRatings == {Some("0"), Some("6"), Some("3.7")}

\* C11 as claimed: a review of an existing listing with rating 0, 6 or 3.7
\* stores one row whose rating is 1, 5 or 3; rating "abc" is answered 400
\* "Bad rating" and stores nothing; every stored rating is within 1..5.
C11_RatingsAsListed ==
    [][/\ \A h \in inflight :
             Reviewed(h) /\ h.body.rating \in NumericRatings =>
                /\ Len(reviews') = Len(reviews) + 1
                /\ reviews'[Len(reviews')].listing_id = h.id
                /\ reviews'[Len(reviews')].rating
                      = ListedRating(h.body.rating)
       /\ RefusedAtOnce(Some("abc")) =>
             /\ Val(resp').status = 400
             /\ Val(resp').error = "Bad rating"
             /\ reviews' = reviews
             /\ inflight' = inflight
       /\ \A i \in 1..Len(reviews') : reviews'[i].rating \in 1..5]_vars

\* C11 as amended: the same, with rating 3.7 stored as 4 (Math.round).
C11_RatingsRounded ==
    [][/\ \A h \in inflight :
             Reviewed(h) =>
                /\ h.body.rating \in NumericRatings
                /\ Len(reviews') = Len(reviews) + 1
                /\ reviews'[Len(reviews')].listing_id = h.id
                /\ reviews'[Len(reviews')].rating
                      = RoundedRating(h.body.rating)
       /\ RefusedAtOnce(Some("abc")) =>
             /\ Val(resp').status = 400
             /\ Val(resp').error = "Bad rating"
             /\ reviews' = reviews
             /\ inflight' = inflight
       /\ \A i \in 1..Len(reviews') : reviews'[i].rating \in 1..5]_vars

\* a review with rating 3.7 has been stored, and one with rating "abc" is
\* then answered
C11_Witness ==
    /\ \E i \in 1..Len(reviews) : reviews[i].rating = 4
    /\ Replied
    /\ Answer.op = "postReview"
    /\ Answer.body.rating = Some("abc")
    /\ Answer.id \in 1..Len(listings)
    /\ Answer.status = 400

(* ----------------------- the status cancelled -------------------------- *)
\* the user uid has a request on the listing id that has been resolved
Resolved(id, uid) ==
    \E i \in 1..Len(requests) :
        /\ requests[i].listing_id = id
        /\ requests[i].requester_id = uid
        /\ requests[i].status \in {"accepted", "rejected"}

\* C12: from an empty requests table no request ever gets the status
\* cancelled (every status written is pending, accepted or rejected), so
\* create-request never takes its reuse branch, and no create-request
\* succeeds for a user whose request on that listing has been accepted or
\* rejected.
C12_NeverCancelled ==
    [][/\ \A i \in 1..Len(requests') :
              requests'[i].status \in {"pending", "accepted", "rejected"}
       /\ \A h \in inflight' :
              h.op = "createRequest" /\ h.pc = "write" => IsNull(h.req)
       /\ \A h \in inflight :
              /\ h.op = "createRequest" /\ StepOf(h)
              /\ ~IsNull(resp') /\ Val(resp').status = 200
              => ~Resolved(h.id, h.uid)]_vars

(* ------------------- one accepted request per listing ------------------ *)
\* C13: in every reachable state each listing has at most one request
\* with status accepted; an accept of a second request on a listing does
\* not produce a second accepted request.
C13_OneAcceptedPerListing ==
    \A i, j \in 1..Len(requests) :
        /\ requests[i].status = "accepted"
        /\ requests[j].status = "accepted"
        /\ requests[i].listing_id = requests[j].listing_id
        => i = j

====
